---- MODULE Spec2Model ----
(***************************************************************************)
(* Authentication / session lifecycle of the contacts backend:             *)
(* signup, login, refresh-token exchange, password reset, email            *)
(* verification, the identity resolver (get_current_user), the admin role  *)
(* gate and the contacts routes.                                           *)
(*                                                                         *)
(* Handlers are modelled one action per handler; signup is split at the    *)
(* await between the pre-check lookup and the commit, because two signups  *)
(* can interleave there.                                                   *)
(***************************************************************************)
EXTENDS Naturals, FiniteSets, Sequences, TLC

VARIABLES users, nextId, active, cache, inflight, last, contacts

vars == <<users, nextId, active, cache, inflight, last, contacts>>

(***************************************************************************)
(* Bounds of the model                                                     *)
(***************************************************************************)
\* highest token identifier a presented token may carry
MaxJti == 1

Emails == {"a@x.com", "b@x.com"}
Passwords == {"p1", "p2"}
Procs == {"r1", "r2"}
\* what a signup payload may carry in a "role" field ("none": no such field)
PayloadRoles == {"none", "user", "admin", "root"}
Jtis == 1..MaxJti
\* highest jti of the active-set operations taken on their own
MaxStoreJti == 3
StoreJtis == 1..MaxStoreJti
\* highest contact id a request may name
MaxContactId == 2
ContactIds == 1..MaxContactId
ContactEmails == {"c1@y.com", "c2@y.com"}

(***************************************************************************)
(* Values                                                                  *)
(***************************************************************************)
NoClaim == "none"
NoJti == 0
NoUser == [id |-> 0, email |-> NoClaim, password |-> <<"none", "none">>,
           confirmed |-> FALSE, avatar |-> "none", role |-> "none"]

\* ---- password hashing (services/auth.py, repository/users.py) ----
get_password_hash(password) == <<"bcrypt", password>>

verify_password(plain_password, hashed_password) ==
    hashed_password = get_password_hash(plain_password)

\* ---- signed tokens ----
\* A token is its claim set plus what jwt.decode makes of it:
\* sig = "valid" (decodes), "expired", "badsig", "malformed"; "missing" is the
\* absent Authorization header.
Token(sig, sub, type, jti) == [sig |-> sig, sub |-> sub, type |-> type, jti |-> jti]

NoToken == Token("missing", NoClaim, NoClaim, NoJti)

TokenTypes == {NoClaim, "refresh", "password_reset", "email_verification"}

ValidTokens == {Token("valid", s, t, j) : s \in Emails \cup {NoClaim},
                                         t \in TokenTypes,
                                         j \in Jtis \cup {NoJti}}

BrokenTokens == {Token(k, "a@x.com", "refresh", 1) : k \in {"expired", "badsig", "malformed"}}

Tokens == ValidTokens \cup BrokenTokens

\* what a request to an authenticated endpoint may present as its bearer
\* token: an access, refresh or password-reset token of any subject, a token
\* that does not decode, or nothing
BearerTokens ==
    {t \in ValidTokens : t.jti = NoJti /\ t.type \in {NoClaim, "refresh", "password_reset"}}
        \cup BrokenTokens \cup {NoToken}

\* jwt.decode: the payload, or a JWTError
decodes(token) == token.sig = "valid"

\* to_encode = {sub, exp}
create_access_token(sub) == Token("valid", sub, NoClaim, NoJti)

\* to_encode = {sub, exp, type: "refresh"}: no jti is put in the claim set
create_refresh_token(sub) == Token("valid", sub, "refresh", NoJti)

\* to_encode = {sub: email, exp, type: "password_reset"}
create_password_reset_token(email) == Token("valid", email, "password_reset", NoJti)

\* what a client may send as the token of a reset or verification link: any
\* token this service signs, one that does not decode, or an empty string
LinkTokens == {t \in ValidTokens : t.jti = NoJti} \cup BrokenTokens \cup {NoToken}

\* the ids the users table can hand out in this model, and one it never does
UserIds == 1..(Cardinality(Emails) + 1)

\* str(user_id) and int(sub); int of a string that is no number raises
\* ValueError, written 0 here (no row has id 0)
str(user_id) == ToString(user_id)
int(sub) == IF \E n \in UserIds : str(n) = sub
            THEN CHOOSE n \in UserIds : str(n) = sub
            ELSE 0

\* to_encode = {sub: str(user_id), exp, type: "email_verification"}
create_verification_token(user_id) ==
    Token("valid", str(user_id), "email_verification", NoJti)

\* what a client may send to the verification link: a verification token of
\* any id, a token of another type or with an email or no subject, a token
\* that does not decode, or an empty string
VerifyTokens ==
    {Token("valid", sub, t, NoJti) :
        sub \in {str(n) : n \in UserIds} \cup {"a@x.com", NoClaim}, t \in TokenTypes}
        \cup BrokenTokens \cup {NoToken}

\* ---- responses ----
Resp(status, detail) == [status |-> status, detail |-> detail]
NoResp == Resp(0, "")
NoTokens == [access_token |-> NoToken, refresh_token |-> NoToken]

\* the last completed request: the handler, the case its input fell in, and
\* the response the client saw
Last(op, case, resp, issued) ==
    [op |-> op, case |-> case, status |-> resp.status, detail |-> resp.detail,
     issued |-> issued, ident |-> <<"none", FALSE, "none">>, redis |-> "none",
     mail |-> "none", arg |-> "none"]

\* what a request saw of the identity its bearer token resolved to
Ident(user) == <<user.email, user.confirmed, user.role>>

\* a completed request behind the resolver: as Last, with the identity the
\* resolver handed to the handler and how the Token Cache behaved meanwhile
LastAs(op, case, resp, user, redis) ==
    [Last(op, case, resp, NoTokens) EXCEPT !.ident = Ident(user), !.redis = redis]

LastNone == Last("none", "none", NoResp, NoTokens)

(***************************************************************************)
(* Credential Store (users table)                                          *)
(***************************************************************************)
\* select(User).where(User.email == email) ... .first()
get_user_by_email(email) ==
    IF \E u \in users : u.email = email
    THEN CHOOSE u \in users : u.email = email
    ELSE NoUser

\* ---- writes to a loaded row ----
\* the mapped columns of the users table
UserColumns == {"id", "email", "password", "confirmed", "avatar", "role"}

\* an attribute assignment on a loaded row followed by db.commit(): a mapped
\* column is written to the table, any other name is a plain attribute of the
\* Python object and the table keeps the row as it was
commit_attr(user, attr, value) ==
    IF attr \in UserColumns /\ attr \in DOMAIN user
    THEN {IF u.id = user.id THEN [u EXCEPT ![attr] = value] ELSE u : u \in users}
    ELSE users

(***************************************************************************)
(* Token Cache: active refresh jtis (jti -> email) and identity snapshots  *)
(***************************************************************************)
store_refresh_token(store, jti, email) ==
    {e \in store : e.jti # jti} \cup {[jti |-> jti, email |-> email]}

\* variant: revoking a jti revokes every jti of its subject
revoke_refresh_token_of_subject(store, jti) ==
    {e \in store : \A r \in store : r.jti = jti => e.email # r.email}

revoke_refresh_token(store, jti) == {e \in store : e.jti # jti}

is_refresh_token_active(store, jti) == \E e \in store : e.jti = jti

NoCache == [e \in Emails |-> NoUser]

(***************************************************************************)
(* Initial state: empty store, empty cache, no request in flight           *)
(***************************************************************************)
Idle == [pc |-> "idle", email |-> NoClaim, password |-> <<"none", "none">>,
         role |-> "none"]

Init ==
    /\ users = {}
    /\ nextId = 1
    /\ active = {}
    /\ cache = NoCache
    /\ inflight = [p \in Procs |-> Idle]
    /\ last = LastNone
    /\ contacts = {}

(***************************************************************************)
(* POST /auth/signup                                                       *)
(***************************************************************************)
\* what signup answers when create_user raises its "already registered"
\* HTTPException: signup's handlers are `except IntegrityError` and then
\* `except Exception`, and the second one takes it
signup_existing_response == Resp(500, "Failed to create user due to an internal server error.")

\* variant: the constraint violation of the commit answered by the general
\* handler
signup_integrity_response_500 ==
    Resp(500, "Failed to create user due to an internal server error.")

\* what signup answers when the commit hits the unique constraint
signup_integrity_response == Resp(409, "User with this email already exists.")

\* variant: a schema that keeps a "role" field of the payload
UserCreate_with_role(email, password, role) ==
    IF role = "none" THEN [email |-> email, password |-> password]
    ELSE [email |-> email, password |-> password, role |-> role]

\* the request body as the UserCreate schema parses it: the schema declares
\* email and password, and a field it does not declare is dropped
UserCreate(email, password, role) == [email |-> email, password |-> password]

\* getattr(user, 'role', 'user')
role_of(user) == IF "role" \in DOMAIN user THEN user.role ELSE "user"

\* create_user up to its first write: the pre-check lookup, the hashing and
\* the construction of the row
signup_precheck(p, email, password, role) ==
    /\ inflight[p].pc = "idle"
    /\ IF get_user_by_email(email) # NoUser
       THEN /\ last' = Last("signup", "registered", signup_existing_response, NoTokens)
            /\ UNCHANGED inflight
       ELSE /\ LET user == UserCreate(email, password, role) IN
               inflight' = [inflight EXCEPT ![p] =
                               [pc |-> "commit", email |-> user.email,
                                password |-> get_password_hash(user.password),
                                role |-> role_of(user)]]
            /\ UNCHANGED last
    /\ UNCHANGED <<contacts, users, nextId, active, cache>>

\* what the mail transport does with the verification email of a signup: it
\* takes the message, refuses it, or raises
MailOutcomes == {"sent", "refused", "raised"}

\* send_email: True when the transport took the message; a refusal or an
\* exception of the transport is logged by its `except Exception` and False
\* is returned
send_email(transport) == transport = "sent"

\* variant: create_user lets a failed email fail the signup
create_user_email_step_strict(transport) ==
    IF send_email(transport) THEN "continue" ELSE "raise"

\* create_user after the commit: `try: await send_verification_email(...)
\* except Exception: log`; the result of the send is not looked at, and the
\* function goes on to return the row
create_user_email_step(transport) ==
    IF send_email(transport) THEN "continue" ELSE "continue"

\* db.add / db.commit / db.refresh, the best-effort email, and signup's answer
\* (the background task that sends the second email runs after the answer)
signup_commit(p, transport) ==
    /\ inflight[p].pc = "commit"
    /\ LET email == inflight[p].email IN
       IF get_user_by_email(email) # NoUser
       THEN /\ last' = Last("signup", "raced", signup_integrity_response, NoTokens)
            /\ UNCHANGED <<users, nextId>>
       ELSE /\ users' = users \cup {[id |-> nextId, email |-> email,
                                     password |-> inflight[p].password,
                                     confirmed |-> FALSE, avatar |-> "none",
                                     role |-> inflight[p].role]}
            /\ nextId' = nextId + 1
            /\ last' = [Last("signup", "new",
                             IF create_user_email_step(transport) = "raise"
                             THEN signup_existing_response
                             ELSE Resp(201, ""),
                             NoTokens) EXCEPT !.mail = transport]
    /\ inflight' = [inflight EXCEPT ![p] = Idle]
    /\ UNCHANGED <<contacts, active, cache>>

\* UPDATE users SET role='admin' WHERE email=:email (direct store access)
make_admin(email) ==
    /\ \E u \in users : u.email = email /\ u.role # "admin"
    /\ users' = {IF u.email = email THEN [u EXCEPT !.role = "admin"] ELSE u : u \in users}
    /\ UNCHANGED <<contacts, nextId, active, cache, inflight, last>>

(***************************************************************************)
(* POST /auth/login                                                        *)
(***************************************************************************)
login_failed_response == Resp(401, "Incorrect email or password")

\* variant: an unregistered identifier answered apart from a wrong password
login_outcome_user_not_found(username, password) ==
    LET user == get_user_by_email(username) IN
    IF user = NoUser
    THEN [resp |-> Resp(404, "User not found"), issued |-> NoTokens, store |-> active]
    ELSE IF ~verify_password(password, user.password)
    THEN [resp |-> login_failed_response, issued |-> NoTokens, store |-> active]
    ELSE [resp |-> Resp(500, "Internal server error"),
          issued |-> NoTokens, store |-> active]

\* the handler's outcome: its response, the tokens in it, the active set after
login_outcome(username, password) ==
    LET user == get_user_by_email(username) IN
    IF user = NoUser \/ ~verify_password(password, user.password)
    THEN [resp |-> login_failed_response, issued |-> NoTokens, store |-> active]
    ELSE LET access_token == create_access_token(user.email)
             refresh_token == create_refresh_token(user.email)
         IN  \* payload["jti"] of a payload without that key raises KeyError,
             \* which the handler's `except Exception` answers with 500
             IF refresh_token.jti = NoJti
             THEN [resp |-> Resp(500, "Internal server error"),
                   issued |-> NoTokens, store |-> active]
             ELSE [resp |-> Resp(200, ""),
                   issued |-> [access_token |-> access_token,
                               refresh_token |-> refresh_token],
                   store |-> store_refresh_token(active, refresh_token.jti, user.email)]

\* which of the three kinds of login a request is
login_case(username, password) ==
    IF get_user_by_email(username) = NoUser THEN "unknown"
    ELSE IF get_user_by_email(username).password # get_password_hash(password) THEN "wrongpw"
    ELSE "correct"

login(username, password) ==
    LET out == login_outcome(username, password) IN
    /\ active' = out.store
    /\ last' = Last("login", login_case(username, password), out.resp, out.issued)
    /\ UNCHANGED <<contacts, users, nextId, cache, inflight>>

(***************************************************************************)
(* POST /auth/refresh-token                                                *)
(***************************************************************************)
\* variant: the handler's `except Exception` answering as login's does
refresh_exception_response_500 == Resp(500, "Internal server error")

\* `except Exception as e: raise HTTPException(status_code=401, ...)`
refresh_exception_response == Resp(401, "Invalid refresh token")

\* variant: an exchange signs the subject out of all its other logins
refresh_outcome_revokes_subject(token) ==
    IF ~decodes(token)
    THEN [resp |-> refresh_exception_response, issued |-> NoTokens, store |-> active]
    ELSE IF token.type # "refresh"
    THEN [resp |-> Resp(401, "Invalid refresh token type"), issued |-> NoTokens, store |-> active]
    ELSE IF token.jti = NoJti \/ token.sub = NoClaim
    THEN [resp |-> Resp(401, "Invalid refresh token"), issued |-> NoTokens, store |-> active]
    ELSE IF ~is_refresh_token_active(active, token.jti)
    THEN [resp |-> Resp(401, "Refresh token revoked or expired"),
          issued |-> NoTokens, store |-> active]
    ELSE [resp |-> refresh_exception_response, issued |-> NoTokens,
          store |-> {e \in active : e.email # token.sub /\ e.jti # token.jti}]

\* the handler's outcome: its response, the tokens it returns and the active
\* set after
refresh_outcome(token) ==
    IF ~decodes(token)
    THEN [resp |-> refresh_exception_response, issued |-> NoTokens, store |-> active]
    ELSE IF token.type # "refresh"
    THEN [resp |-> Resp(401, "Invalid refresh token type"), issued |-> NoTokens, store |-> active]
    ELSE IF token.jti = NoJti \/ token.sub = NoClaim
    THEN [resp |-> Resp(401, "Invalid refresh token"), issued |-> NoTokens, store |-> active]
    ELSE IF ~is_refresh_token_active(active, token.jti)
    THEN [resp |-> Resp(401, "Refresh token revoked or expired"),
          issued |-> NoTokens, store |-> active]
    ELSE LET revoked == revoke_refresh_token(active, token.jti)
             access_token == create_access_token(token.sub)
             new_refresh_token == create_refresh_token(token.sub)
         IN  \* new_payload["jti"]: KeyError, answered 401 by `except Exception`
             IF new_refresh_token.jti = NoJti
             THEN [resp |-> refresh_exception_response,
                   issued |-> NoTokens, store |-> revoked]
             ELSE [resp |-> Resp(200, ""),
                   issued |-> [access_token |-> access_token,
                               refresh_token |-> new_refresh_token],
                   store |-> store_refresh_token(revoked, new_refresh_token.jti, token.sub)]

\* which kind of presented refresh token a request carries
refresh_case(token) ==
    IF token.sig # "valid" THEN token.sig
    ELSE IF token.type # "refresh" THEN "wrong_type"
    ELSE IF token.jti = NoJti THEN "no_jti"
    ELSE IF token.sub = NoClaim THEN "no_sub"
    ELSE IF \A e \in active : e.jti # token.jti THEN "inactive"
    ELSE "active"

refresh_token(token) ==
    LET out == refresh_outcome(token) IN
    /\ active' = out.store
    /\ last' = Last("refresh", refresh_case(token), out.resp, out.issued)
    /\ UNCHANGED <<contacts, users, nextId, cache, inflight>>

(***************************************************************************)
(* POST /auth/password-reset-request                                       *)
(***************************************************************************)
request_password_reset_response(email) ==
    IF get_user_by_email(email) = NoUser
    THEN Resp(200, "If the email exists, password reset instructions have been sent")
    ELSE Resp(200, "Password reset instructions have been sent")

request_password_reset(email) ==
    /\ last' = Last("reset_request",
                    IF \E u \in users : u.email = email THEN "registered" ELSE "unknown",
                    request_password_reset_response(email), NoTokens)
    /\ UNCHANGED <<contacts, users, nextId, active, cache, inflight>>

(***************************************************************************)
(* GET /auth/verify-email                                                  *)
(***************************************************************************)
\* select(User).filter_by(id=user_id) ... .first()
get_user_by_id(user_id) ==
    IF \E u \in users : u.id = user_id
    THEN CHOOSE u \in users : u.id = user_id
    ELSE NoUser

\* the handler's last clause, `except Exception`, which also takes the
\* HTTPExceptions raised inside the try block
verify_exception_response == Resp(500, "Failed to verify email")

\* variant: a second verification of a confirmed Identity is refused
verify_email_outcome_once(token) ==
    IF token.sig = "expired"
    THEN [resp |-> Resp(400, "Verification token expired"), users |-> users]
    ELSE IF ~decodes(token)
    THEN [resp |-> Resp(400, "Invalid token"), users |-> users]
    ELSE IF token.sub = NoClaim \/ token.type # "email_verification"
    THEN [resp |-> verify_exception_response, users |-> users]
    ELSE LET user == get_user_by_id(int(token.sub)) IN
         IF user = NoUser
         THEN [resp |-> verify_exception_response, users |-> users]
         ELSE IF user.confirmed
         THEN [resp |-> Resp(400, "Invalid or already verified code"), users |-> users]
         ELSE [resp |-> Resp(200, "Email successfully verified"),
               users |-> commit_attr(user, "confirmed", TRUE)]

\* variant: the type claim of the verification token is not looked at
verify_email_outcome_any_type(token) ==
    IF token.sig = "expired"
    THEN [resp |-> Resp(400, "Verification token expired"), users |-> users]
    ELSE IF ~decodes(token)
    THEN [resp |-> Resp(400, "Invalid token"), users |-> users]
    ELSE IF token.sub = NoClaim
    THEN [resp |-> verify_exception_response, users |-> users]
    ELSE LET user == get_user_by_id(int(token.sub)) IN
         IF user = NoUser
         THEN [resp |-> verify_exception_response, users |-> users]
         ELSE IF user.confirmed
         THEN [resp |-> Resp(200, "Email already verified"), users |-> users]
         ELSE [resp |-> Resp(200, "Email successfully verified"),
               users |-> commit_attr(user, "confirmed", TRUE)]

\* the handler's outcome: its response and the users table after
verify_email_outcome(token) ==
    IF token.sig = "expired"
    THEN [resp |-> Resp(400, "Verification token expired"), users |-> users]
    ELSE IF ~decodes(token)
    THEN [resp |-> Resp(400, "Invalid token"), users |-> users]
    ELSE IF token.sub = NoClaim \/ token.type # "email_verification"
    THEN \* HTTPException(400, "Invalid token type"), raised inside the try
         [resp |-> verify_exception_response, users |-> users]
    ELSE LET user == get_user_by_id(int(token.sub)) IN
         IF user = NoUser
         THEN \* ValueError of int(), or HTTPException(404, "User not found")
              [resp |-> verify_exception_response, users |-> users]
         ELSE IF user.confirmed
         THEN [resp |-> Resp(200, "Email already verified"), users |-> users]
         ELSE [resp |-> Resp(200, "Email successfully verified"),
               users |-> commit_attr(user, "confirmed", TRUE)]

\* which kind of verification token a request carries
verify_case(token) ==
    IF token.sig # "valid" THEN token.sig
    ELSE IF token.type # "email_verification" THEN "wrong_type"
    ELSE IF token.sub = NoClaim THEN "no_sub"
    ELSE IF \A u \in users : str(u.id) # token.sub THEN "unknown_id"
    ELSE IF (CHOOSE u \in users : str(u.id) = token.sub).confirmed THEN "again"
    ELSE "first"

verify_email(token) ==
    LET out == verify_email_outcome(token) IN
    /\ users' = out.users
    /\ last' = Last("verify", verify_case(token), out.resp, NoTokens)
    /\ UNCHANGED <<contacts, nextId, active, cache, inflight>>

(***************************************************************************)
(* POST /auth/reset-password                                               *)
(***************************************************************************)
\* variant: the type claim of the token is not looked at
reset_user_password_any_type(token, new_password) ==
    IF ~decodes(token) \/ token.sub = NoClaim
    THEN [user |-> NoUser, users |-> users]
    ELSE LET user == get_user_by_email(token.sub) IN
         IF user = NoUser
         THEN [user |-> NoUser, users |-> users]
         ELSE [user |-> user,
               users |-> commit_attr(user, "hashed_password",
                                     get_password_hash(new_password))]

\* reset_user_password: the Identity (None: NoUser) and the table after
reset_user_password(token, new_password) ==
    IF ~decodes(token) \/ token.type # "password_reset" \/ token.sub = NoClaim
    THEN [user |-> NoUser, users |-> users]
    ELSE LET user == get_user_by_email(token.sub) IN
         IF user = NoUser
         THEN [user |-> NoUser, users |-> users]
         ELSE [user |-> user,
               users |-> commit_attr(user, "hashed_password",
                                     get_password_hash(new_password))]

\* which kind of reset token a request carries
reset_case(token) ==
    IF token.sig # "valid" THEN token.sig
    ELSE IF token.type # "password_reset" THEN "wrong_type"
    ELSE IF token.sub = NoClaim THEN "no_sub"
    ELSE IF \A u \in users : u.email # token.sub THEN "unknown_sub"
    ELSE "registered"

\* variant: a completed reset signs the Identity out of all its logins
reset_password_signs_out(token, new_password) ==
    LET out == IF token = NoToken
               THEN [user |-> NoUser, users |-> users]
               ELSE reset_user_password(token, new_password)
        resp == IF token = NoToken
                THEN Resp(422, "Token and new password are required")
                ELSE IF out.user = NoUser
                THEN Resp(400, "Invalid or expired token")
                ELSE Resp(200, "Password has been reset successfully")
    IN  /\ users' = out.users
        /\ active' = IF out.user = NoUser THEN active
                      ELSE {e \in active : e.email # out.user.email}
        /\ last' = Last("reset", reset_case(token), resp, NoTokens)
        /\ UNCHANGED <<contacts, nextId, cache, inflight>>

\* the handler: 422 without a token, 400 when reset_user_password returns
\* nothing, 200 otherwise
reset_password(token, new_password) ==
    LET out == IF token = NoToken
               THEN [user |-> NoUser, users |-> users]
               ELSE reset_user_password(token, new_password)
        resp == IF token = NoToken
                THEN Resp(422, "Token and new password are required")
                ELSE IF out.user = NoUser
                THEN Resp(400, "Invalid or expired token")
                ELSE Resp(200, "Password has been reset successfully")
    IN  /\ users' = out.users
        /\ last' = Last("reset", reset_case(token), resp, NoTokens)
        /\ UNCHANGED <<contacts, nextId, active, cache, inflight>>

(***************************************************************************)
(* Identity Resolver and Role Gate                                         *)
(***************************************************************************)
credentials_exception == Resp(401, "Could not validate credentials")

\* OAuth2PasswordBearer with no Authorization header answers before the
\* resolver's body runs
oauth2_scheme_missing == Resp(401, "Not authenticated")

\* how the Token Cache behaves during one resolution: "up", or the step at
\* which it raises
RedisFailures == {"connect_fails", "get_fails", "corrupt", "set_fails"}
RedisModes == {"up"} \cup RedisFailures

\* redis_conn.set(cache_key, user.model_dump_json(), ex=300): the ORM row has
\* no model_dump_json, the AttributeError is swallowed, nothing is written
cache_after_miss(user) == cache

\* variant: the snapshot is serialized from the row's columns and written
cache_after_miss_written(user) == [cache EXCEPT ![user.email] = user]

\* variant: a subject with no Identity answered 404 instead of the
\* credentials error
get_current_user_not_found(token, redis) ==
    IF token.sig = "missing"
    THEN [ok |-> FALSE, resp |-> oauth2_scheme_missing, user |-> NoUser, cache |-> cache]
    ELSE IF ~decodes(token) \/ token.sub = NoClaim
    THEN [ok |-> FALSE, resp |-> credentials_exception, user |-> NoUser, cache |-> cache]
    ELSE LET user == get_user_by_email(token.sub) IN
         IF user = NoUser
         THEN [ok |-> FALSE, resp |-> Resp(404, "User not found"),
               user |-> NoUser, cache |-> cache]
         ELSE [ok |-> TRUE, resp |-> Resp(200, ""), user |-> user, cache |-> cache]

\* variant: a resolution that finds no Identity caches that answer
get_current_user_caches_absent(token, redis) ==
    IF token.sig = "missing"
    THEN [ok |-> FALSE, resp |-> oauth2_scheme_missing, user |-> NoUser, cache |-> cache]
    ELSE IF ~decodes(token) \/ token.sub = NoClaim
    THEN [ok |-> FALSE, resp |-> credentials_exception, user |-> NoUser, cache |-> cache]
    ELSE LET user == get_user_by_email(token.sub) IN
         IF user = NoUser
         THEN [ok |-> FALSE, resp |-> credentials_exception, user |-> NoUser,
               cache |-> IF token.sub \in Emails /\ redis = "up"
                         THEN [cache EXCEPT ![token.sub] = [NoUser EXCEPT !.email = token.sub]]
                         ELSE cache]
         ELSE [ok |-> TRUE, resp |-> Resp(200, ""), user |-> user, cache |-> cache]

\* variant: an exception of the cache read is not swallowed
get_current_user_cache_raises(token, redis) ==
    IF token.sig = "missing"
    THEN [ok |-> FALSE, resp |-> oauth2_scheme_missing, user |-> NoUser, cache |-> cache]
    ELSE IF ~decodes(token) \/ token.sub = NoClaim
    THEN [ok |-> FALSE, resp |-> credentials_exception, user |-> NoUser, cache |-> cache]
    ELSE IF redis \in {"connect_fails", "get_fails", "corrupt"}
    THEN [ok |-> FALSE, resp |-> Resp(500, "Internal server error"),
          user |-> NoUser, cache |-> cache]
    ELSE LET user == get_user_by_email(token.sub) IN
         IF user = NoUser
         THEN [ok |-> FALSE, resp |-> credentials_exception, user |-> NoUser, cache |-> cache]
         ELSE [ok |-> TRUE, resp |-> Resp(200, ""), user |-> user, cache |-> cache]

\* the resolver's outcome: the identity or the error, and the cache after.
\* Both cache blocks are wrapped in `try ... except Exception: pass`.
get_current_user(token, redis) ==
    IF token.sig = "missing"
    THEN [ok |-> FALSE, resp |-> oauth2_scheme_missing, user |-> NoUser, cache |-> cache]
    ELSE IF ~decodes(token) \/ token.sub = NoClaim
    THEN [ok |-> FALSE, resp |-> credentials_exception, user |-> NoUser, cache |-> cache]
    ELSE LET redis_conn == redis # "connect_fails"
             cached_user == IF redis_conn /\ redis # "get_fails"
                                  /\ token.sub \in DOMAIN cache
                            THEN cache[token.sub] ELSE NoUser
         IN
         IF cached_user # NoUser /\ redis # "corrupt"
         THEN [ok |-> TRUE, resp |-> Resp(200, ""), user |-> cached_user, cache |-> cache]
         ELSE LET user == get_user_by_email(token.sub) IN
              IF user = NoUser
              THEN [ok |-> FALSE, resp |-> credentials_exception,
                    user |-> NoUser, cache |-> cache]
              ELSE [ok |-> TRUE, resp |-> Resp(200, ""), user |-> user,
                    cache |-> IF redis_conn /\ redis # "set_fails"
                              THEN cache_after_miss(user) ELSE cache]

\* variant: the gate refusing a non-admin with the authentication error
get_current_active_admin_401(current_user) ==
    IF current_user.role # "admin"
    THEN Resp(401, "Could not validate credentials")
    ELSE Resp(200, "")

\* get_current_active_admin, given the resolved identity
get_current_active_admin(current_user) ==
    IF current_user.role # "admin"
    THEN Resp(403, "Admin privileges required")
    ELSE Resp(200, "")

\* which kind of bearer token a request carries: how it fails to name an
\* Identity, or the stored role of the Identity it names
bearer_case(token) ==
    IF token.sig # "valid" THEN token.sig
    ELSE IF token.sub = NoClaim THEN "no_sub"
    ELSE IF \A u \in users : u.email # token.sub THEN "unknown_sub"
    ELSE (CHOOSE u \in users : u.email = token.sub).role

(***************************************************************************)
(* PATCH /auth/avatar                                                      *)
(***************************************************************************)
\* what becomes of the uploaded file: stored by the image service, empty, or
\* the upload call raising
UploadOutcomes == {"stored", "empty", "raised"}

\* upload_avatar: the secure_url of public_id avatars/<email> when the file
\* is stored; an empty file and a failing upload both leave through its
\* `except Exception` as HTTPException(500)
upload_avatar(file, user_email) ==
    IF file = "stored" THEN user_email ELSE "raise"

\* update_user_avatar: db.get, user.avatar = avatar_url, db.commit
update_user_avatar(user_id, avatar_url) ==
    LET user == get_user_by_id(user_id) IN
    IF user = NoUser
    THEN [user |-> NoUser, users |-> users]
    ELSE [user |-> [user EXCEPT !.avatar = avatar_url],
          users |-> commit_attr(user, "avatar", avatar_url)]

\* the handler behind Depends(get_current_user); every exception of its body
\* is answered 500 "Failed to update avatar"
update_avatar(token, file) ==
    LET r == get_current_user(token, "up")
        avatar_url == upload_avatar(file, r.user.email)
        out == IF r.ok /\ avatar_url # "raise"
               THEN update_user_avatar(r.user.id, avatar_url)
               ELSE [user |-> NoUser, users |-> users]
        resp == IF ~r.ok THEN r.resp
                ELSE IF out.user = NoUser THEN Resp(500, "Failed to update avatar")
                ELSE Resp(200, "")
    IN  /\ users' = out.users
        /\ cache' = r.cache
        /\ last' = [LastAs("avatar", bearer_case(token), resp, out.user, "up")
                        EXCEPT !.arg = file]
        /\ UNCHANGED <<contacts, nextId, active, inflight>>

\* GET /users/me
get_me(token, redis) ==
    LET r == get_current_user(token, redis) IN
    /\ cache' = r.cache
    /\ last' = LastAs("me", bearer_case(token), r.resp, r.user, redis)
    /\ UNCHANGED <<contacts, users, nextId, active, inflight>>

\* GET /users/all behind Depends(get_current_active_admin); the body runs a
\* raw string statement, which the ORM accepts or refuses by its version
get_all_users(token, redis, body_status) ==
    LET r == get_current_user(token, redis)
        gate == get_current_active_admin(r.user)
        resp == IF ~r.ok THEN r.resp
                ELSE IF gate.status # 200 THEN gate
                ELSE IF body_status = 200 THEN Resp(200, "")
                ELSE Resp(500, "Internal server error")
    IN  /\ cache' = r.cache
        /\ last' = LastAs("all", bearer_case(token), resp, r.user, redis)
        /\ UNCHANGED <<contacts, users, nextId, active, inflight>>

(***************************************************************************)
(* Contacts: repository functions and the routes that call them            *)
(***************************************************************************)
\* Values as Python passes them: what matters to a call is which kind of
\* object lands in which parameter.
Session == [kind |-> "session"]
IntArg(n) == [kind |-> "int", v |-> n]
UserArg(user) == [kind |-> "user", v |-> user]
BodyArg(body) == [kind |-> "body", v |-> body]

NoContact == [id |-> 0, name |-> "none", email |-> "none", phone |-> "none", user_id |-> 0]

\* the mapped columns of the contacts table
ContactColumns == {"id", "name", "email", "phone", "user_id"}

\* an exception leaving a handler: main.py's handler for Exception
unhandled_exception_response == Resp(500, "Internal server error")

\* the result of a repository call: it raised, or it returned `value`, and
\* the contacts table after
Raised == [raised |-> TRUE, value |-> NoContact, found |-> FALSE, contacts |-> contacts]
Returned(value, found, table) ==
    [raised |-> FALSE, value |-> value, found |-> found, contacts |-> table]

\* request bodies: the fields of ContactModel, and the fields the tests post
\* (those of ContactCreate)
ContactModelFields == {"first_name", "last_name", "email", "phone", "birthday", "user_id"}
ContactCreateFields == {"first_name", "last_name", "email", "phone_number", "birthday",
                        "additional_info"}
ContactPayload(fields, email) == [f \in fields |-> IF f = "email" THEN email ELSE f]
ContactPayloadShapes == {ContactModelFields, ContactCreateFields}

\* get_contact(contact_id, user_id, db): `await db.execute(select(Contact)
\* .filter_by(id=contact_id, user_id=user_id))` needs a session in db and
\* plain values in the filter
get_contact(contact_id, user_id, db) ==
    IF db.kind # "session" \/ contact_id.kind # "int" \/ user_id.kind # "int"
    THEN Raised
    ELSE IF \E c \in contacts : c.id = contact_id.v /\ c.user_id = user_id.v
    THEN Returned(CHOOSE c \in contacts : c.id = contact_id.v /\ c.user_id = user_id.v,
                  TRUE, contacts)
    ELSE Returned(NoContact, FALSE, contacts)

\* create_contact(body, user_id, db): Contact(**body.dict(), user_id=user_id)
\* raises TypeError when body.dict() has a user_id key of its own or a key
\* that is no column; the commit raises IntegrityError on a stored email
repository_contacts_create_contact(body, user_id, db) ==
    IF "user_id" \in DOMAIN body.v \/ ~(DOMAIN body.v \subseteq ContactColumns)
    THEN Raised
    ELSE IF db.kind # "session" \/ \E c \in contacts : c.email = body.v.email
    THEN Raised
    ELSE LET contact == [id |-> Cardinality(contacts) + 1, name |-> body.v.name,
                         email |-> body.v.email, phone |-> body.v.phone,
                         user_id |-> user_id.v]
         IN  Returned(contact, TRUE, contacts \cup {contact})

\* update_contact(contact_id, body, user_id, db)
repository_contacts_update_contact(contact_id, body, user_id, db) ==
    LET got == get_contact(contact_id, user_id, db) IN
    IF got.raised \/ ~got.found THEN got
    ELSE IF body.kind # "body" THEN Raised
    ELSE LET contact == [got.value EXCEPT !.email = body.v.email, !.phone = body.v.phone]
         IN  Returned(contact, TRUE, (contacts \ {got.value}) \cup {contact})

\* delete_contact(contact_id, user_id, db) -> bool
repository_contacts_delete_contact(contact_id, user_id, db) ==
    LET got == get_contact(contact_id, user_id, db) IN
    IF got.raised \/ ~got.found THEN got
    ELSE Returned(got.value, TRUE, contacts \ {got.value})

\* which kind of contact request this is: how its bearer token fails, or how
\* the contact it names relates to the caller
contact_case(token, owned, taken) ==
    IF bearer_case(token) \notin {"user", "admin"} THEN bearer_case(token)
    ELSE IF taken THEN "duplicate"
    ELSE IF owned = "none" THEN "new"
    ELSE owned

ownership(token, contact_id) ==
    IF \A c \in contacts : c.id # contact_id THEN "absent"
    ELSE IF \E c \in contacts : c.id = contact_id /\ c.user_id = get_user_by_email(token.sub).id
    THEN "own"
    ELSE "foreign"

\* a contact request answered: as LastAs, with the id or the email it named
LastContact(op, case, resp, user, arg) ==
    [LastAs(op, case, resp, user, "up") EXCEPT !.arg = arg]

\* POST /contacts/: create_contact(body: ContactModel), the first route
\* registered for the path; its response and the contacts table after
create_contact_outcome(token, fields, email) ==
    LET r == get_current_user(token, "up")
        payload == ContactPayload(fields, email)
        out == repository_contacts_create_contact(BodyArg(payload), IntArg(r.user.id), Session)
    IN  IF ~r.ok THEN [resp |-> r.resp, contacts |-> contacts]
        ELSE IF ~(ContactModelFields \subseteq DOMAIN payload)
        THEN [resp |-> Resp(422, "Field required"), contacts |-> contacts]
        ELSE IF out.raised
        THEN [resp |-> unhandled_exception_response, contacts |-> contacts]
        ELSE [resp |-> Resp(200, ""), contacts |-> out.contacts]

create_contact(token, fields, email) ==
    LET out == create_contact_outcome(token, fields, email) IN
    /\ contacts' = out.contacts
    /\ last' = LastContact("create_contact",
                            contact_case(token, "none", \E c \in contacts : c.email = email),
                            out.resp, get_current_user(token, "up").user, email)
    /\ UNCHANGED <<users, nextId, active, cache, inflight>>

\* GET /contacts/{contact_id}: get_contact(db, contact_id, current_user)
read_contact(token, contact_id) ==
    LET r == get_current_user(token, "up")
        out == get_contact(Session, IntArg(contact_id), UserArg(r.user))
        resp == IF ~r.ok THEN r.resp
                ELSE IF out.raised THEN unhandled_exception_response
                ELSE IF ~out.found THEN Resp(404, "Contact not found or not yours")
                ELSE Resp(200, "")
    IN  /\ last' = LastContact("read_contact",
                                contact_case(token, ownership(token, contact_id), FALSE),
                                resp, r.user, str(contact_id))
        /\ UNCHANGED <<users, nextId, active, cache, inflight, contacts>>

\* PUT /contacts/{contact_id}: the first route registered for the path,
\* repository_contacts.update_contact(db, contact_id, contact, current_user.id)
update_contact(token, contact_id, email) ==
    LET r == get_current_user(token, "up")
        body == [email |-> email, phone |-> "phone"]
        out == repository_contacts_update_contact(Session, IntArg(contact_id),
                                                  BodyArg(body), IntArg(r.user.id))
        resp == IF ~r.ok THEN r.resp
                ELSE IF out.raised THEN unhandled_exception_response
                ELSE IF ~out.found THEN Resp(404, "Contact not found")
                ELSE Resp(200, "")
    IN  /\ contacts' = IF r.ok THEN out.contacts ELSE contacts
        /\ last' = LastContact("update_contact",
                                contact_case(token, ownership(token, contact_id), FALSE),
                                resp, r.user, str(contact_id))
        /\ UNCHANGED <<users, nextId, active, cache, inflight>>

\* DELETE /contacts/{contact_id}: the first route registered for the path,
\* repository_contacts.delete_contact(db, contact_id, current_user.id); the
\* bool it gets back is not None and is no ContactResponse
delete_contact(token, contact_id) ==
    LET r == get_current_user(token, "up")
        out == repository_contacts_delete_contact(Session, IntArg(contact_id),
                                                  IntArg(r.user.id))
        resp == IF ~r.ok THEN r.resp
                ELSE unhandled_exception_response
    IN  /\ contacts' = IF r.ok THEN out.contacts ELSE contacts
        /\ last' = LastContact("delete_contact",
                                contact_case(token, ownership(token, contact_id), FALSE),
                                resp, r.user, str(contact_id))
        /\ UNCHANGED <<users, nextId, active, cache, inflight>>

(***************************************************************************)
(* Specification                                                           *)
(***************************************************************************)
Next ==
    \/ \E p \in Procs, e \in Emails, pw \in Passwords, r \in PayloadRoles :
          signup_precheck(p, e, pw, r)
    \/ \E p \in Procs, m \in MailOutcomes : signup_commit(p, m)
    \/ \E e \in Emails : make_admin(e)
    \/ \E e \in Emails, pw \in Passwords : login(e, pw)
    \/ \E t \in Tokens : refresh_token(t)
    \/ \E e \in Emails : request_password_reset(e)
    \/ \E t \in LinkTokens, pw \in Passwords : reset_password(t, pw)
    \/ \E t \in BearerTokens : get_me(t, "up")
    \/ \E t \in BearerTokens, b \in {200, 500} : get_all_users(t, "up", b)

Spec == Init /\ [][Next]_vars

\* The active set on its own: any set of registrations (one subject per
\* jti), with jtis registered and revoked in any order.
ActiveStores ==
    {{[jti |-> j, email |-> f[j]] : j \in D} :
        f \in [StoreJtis -> Emails], D \in SUBSET StoreJtis}

StoreInit ==
    /\ users = {}
    /\ nextId = 1
    /\ active \in ActiveStores
    /\ cache = NoCache
    /\ inflight = [p \in Procs |-> Idle]
    /\ last = LastNone
    /\ contacts = {}

\* await revoke_refresh_token(jti)
revoke(jti) ==
    /\ active' = revoke_refresh_token(active, jti)
    /\ last' = [Last("revoke",
                      IF is_refresh_token_active(active, jti) THEN "active" ELSE "inactive",
                      Resp(200, ""), NoTokens) EXCEPT !.arg = str(jti)]
    /\ UNCHANGED <<users, nextId, cache, inflight, contacts>>

\* await store_refresh_token(jti, email)
store(jti, email) ==
    /\ active' = store_refresh_token(active, jti, email)
    /\ last' = [Last("store",
                      IF is_refresh_token_active(active, jti) THEN "active" ELSE "inactive",
                      Resp(200, ""), NoTokens) EXCEPT !.arg = str(jti)]
    /\ UNCHANGED <<users, nextId, cache, inflight, contacts>>

NextStore ==
    \/ \E j \in StoreJtis : revoke(j)
    \/ \E j \in StoreJtis, e \in Emails : store(j, e)

StoreSpec == StoreInit /\ [][NextStore]_vars

\* The exchange and the reset against a Token Cache that already holds
\* registrations (the handlers are given every active set over the jtis a
\* presented token may carry and one more); one client signs users up.
ExchangeJtis == 1..(MaxJti + 1)

ExchangeInit ==
    /\ users = {}
    /\ nextId = 1
    /\ active \in {s \in ActiveStores : \A e \in s : e.jti \in ExchangeJtis}
    /\ cache = NoCache
    /\ inflight = [p \in Procs |-> Idle]
    /\ last = LastNone
    /\ contacts = {}

NextExchange ==
    \/ \E e \in Emails : signup_precheck("r1", e, "p1", "none")
    \/ signup_commit("r1", "sent")
    \/ \E t \in Tokens : refresh_token(t)
    \/ \E t \in LinkTokens, pw \in Passwords : reset_password(t, pw)

ExchangeSpec == ExchangeInit /\ [][NextExchange]_vars

\* The resolver with a Token Cache that may fail at any step of a resolution:
\* signups and role changes fill the store, requests resolve their tokens.
NextCache ==
    \/ \E p \in Procs, e \in Emails, pw \in Passwords, r \in PayloadRoles :
          signup_precheck(p, e, pw, r)
    \/ \E p \in Procs, m \in MailOutcomes : signup_commit(p, m)
    \/ \E e \in Emails : make_admin(e)
    \/ \E t \in BearerTokens, m \in RedisModes : get_me(t, m)
    \/ \E t \in BearerTokens, m \in RedisModes, b \in {200, 500} :
          get_all_users(t, m, b)

CacheSpec == Init /\ [][NextCache]_vars

\* The email-verification flow: signups create unconfirmed Identities,
\* verification links confirm them, logins and profile reads go on meanwhile.
NextVerify ==
    \/ \E p \in Procs, e \in Emails, pw \in Passwords, r \in PayloadRoles :
          signup_precheck(p, e, pw, r)
    \/ \E p \in Procs, m \in MailOutcomes : signup_commit(p, m)
    \/ \E t \in VerifyTokens : verify_email(t)
    \/ \E e \in Emails, pw \in Passwords : login(e, pw)
    \/ \E t \in BearerTokens : get_me(t, "up")

VerifySpec == Init /\ [][NextVerify]_vars

\* The life of the confirmed flag: signups, verification links, and every
\* other handler that loads or writes a users row.
NextConfirm ==
    \/ \E p \in Procs, e \in Emails, pw \in Passwords : signup_precheck(p, e, pw, "none")
    \/ \E p \in Procs : signup_commit(p, "sent")
    \/ \E t \in VerifyTokens : verify_email(t)
    \/ \E e \in Emails, pw \in Passwords : login(e, pw)
    \/ \E t \in Tokens : refresh_token(t)
    \/ \E t \in LinkTokens, pw \in Passwords : reset_password(t, pw)
    \/ \E t \in BearerTokens, f \in UploadOutcomes : update_avatar(t, f)

ConfirmSpec == Init /\ [][NextConfirm]_vars

\* The contacts resource: signups create the users, requests with their
\* access tokens (or without) create, read, update and delete contacts.
NextContacts ==
    \/ \E p \in Procs, e \in Emails, pw \in Passwords, r \in PayloadRoles :
          signup_precheck(p, e, pw, r)
    \/ \E p \in Procs, m \in MailOutcomes : signup_commit(p, m)
    \/ \E t \in BearerTokens, f \in ContactPayloadShapes, e \in ContactEmails :
          create_contact(t, f, e)
    \/ \E t \in BearerTokens, c \in ContactIds : read_contact(t, c)
    \/ \E t \in BearerTokens, c \in ContactIds, e \in ContactEmails :
          update_contact(t, c, e)
    \/ \E t \in BearerTokens, c \in ContactIds : delete_contact(t, c)

ContactsSpec == Init /\ [][NextContacts]_vars

(***************************************************************************)
(* Properties                                                              *)
(***************************************************************************)
TypeOK ==
    /\ \A u \in users : u.email \in Emails /\ u.role \in {"user", "admin"}
    /\ nextId \in 1..(Cardinality(Emails) + 1)
    /\ \A e \in active : e.jti \in Jtis \cup StoreJtis /\ e.email \in Emails
    /\ \A p \in Procs : inflight[p].pc \in {"idle", "commit"}

\* Reachability facts about the refresh flow: create_refresh_token puts no jti
\* in the token, so no jti is ever registered and no exchange ever succeeds.
ActiveSetStaysEmpty == active = {}

ExchangeNeverSucceeds == last.op = "refresh" => last.status = 401

\* C3: a login with a registered identifier and the correct password answers
\* 200 with one access token and one refresh token, and the refresh token's
\* jti is active when the response is returned.
C3_LoginIssuesTokens ==
    (last.op = "login" /\ last.case = "correct") =>
        /\ last.status = 200
        /\ last.issued.access_token # NoToken
        /\ last.issued.refresh_token # NoToken
        /\ is_refresh_token_active(active, last.issued.refresh_token.jti)

\* C4: a refresh-token exchange whose token fails verification (undecodable,
\* expired, wrong type, no jti, no subject) or whose jti is not active answers
\* 401 and leaves the set of active jtis as it was.
C4_FailedExchangeKeepsActiveSet ==
    [][\A t \in Tokens :
         (refresh_token(t) /\ refresh_case(t) # "active") =>
             (last'.status = 401 /\ last'.issued = NoTokens /\ active' = active)]_vars

\* C4 witness: an exchange presenting a well-formed refresh token whose jti
\* is not active has been answered 401.
C4_Witness ==
    /\ last.op = "refresh"
    /\ last.case = "inactive"
    /\ last.status = 401
    /\ users # {}

\* C6: in every state, a login with a registered identifier and a wrong
\* password and a login with an unregistered identifier get the same
\* response, 401 with the same detail and no tokens.
C6_LoginFailuresIndistinguishable ==
    /\ \A e1 \in Emails, e2 \in Emails, p1 \in Passwords, p2 \in Passwords :
         (login_case(e1, p1) = "unknown" /\ login_case(e2, p2) = "wrongpw") =>
             /\ login_outcome(e1, p1).resp = login_outcome(e2, p2).resp
             /\ login_outcome(e1, p1).issued = login_outcome(e2, p2).issued
             /\ login_outcome(e1, p1).store = login_outcome(e2, p2).store
    /\ (last.op = "login" /\ last.case \in {"unknown", "wrongpw"}) =>
             (last.status = 401 /\ last.issued = NoTokens)

\* C6 witness: a login with an unregistered identifier has just been refused
\* while another identifier is registered and can be tried with a wrong password.
C6_Witness ==
    /\ last.op = "login"
    /\ last.case = "unknown"
    /\ \E e \in Emails, p \in Passwords : login_case(e, p) = "wrongpw"

\* C7: two password-reset requests that differ only in whether the
\* identifier is registered get the same status and the same message.
C7_ResetRequestIndistinguishable ==
    [][(last.op = "reset_request" /\ last'.op = "reset_request") =>
           (last'.status = last.status /\ last'.detail = last.detail)]_vars

\* C8: the admin-only endpoint called with a decodable token naming an
\* Identity answers 403 when the Identity's role is not "admin", and lets the
\* request through (neither 401 nor 403) when it is "admin".
C8_RoleGate ==
    last.op = "all" =>
        /\ last.case = "user" =>
               (last.status = 403 /\ last.detail = "Admin privileges required")
        /\ last.case = "admin" => last.status \notin {401, 403}

\* C8 witness: a non-admin Identity's request has been refused with 403 while
\* an admin exists in the store.
C8_Witness ==
    /\ last.op = "all"
    /\ last.case = "user"
    /\ last.status = 403
    /\ \E u \in users : u.role = "admin"

\* the admin side of C8: an admin's request has passed the gate
C8_AdminPassed == last.op = "all" /\ last.case = "admin" /\ last.status = 200

TokenFailureCases == {"missing", "malformed", "badsig", "expired", "no_sub", "unknown_sub"}

\* C9 as stated: every request to an authenticated endpoint whose bearer
\* token is missing, malformed, badly signed, expired, without subject or
\* naming no Identity answers 401 with the detail "Could not validate
\* credentials".
C9_UniformDetail ==
    (last.op \in {"me", "all"} /\ last.case \in TokenFailureCases) =>
        (last.status = 401 /\ last.detail = "Could not validate credentials")

\* C9 amended: such a request answers 401 and writes nothing to the store;
\* the detail is "Could not validate credentials" whenever a bearer token was
\* presented, and "Not authenticated" when the token is missing.
C9_Unauthenticated ==
    [][(last' # last /\ last'.op \in {"me", "all"} /\ last'.case \in TokenFailureCases) =>
           /\ last'.status = 401
           /\ last'.detail = IF last'.case = "missing" THEN "Not authenticated"
                             ELSE "Could not validate credentials"
           /\ users' = users
           /\ nextId' = nextId]_vars

\* C9 witness: a request whose token names a subject with no Identity has
\* been refused while the store holds another Identity.
C9_Witness ==
    /\ last.op = "me"
    /\ last.case = "unknown_sub"
    /\ last.status = 401
    /\ users # {}

\* C10: a signup whose identifier is already registered is answered 409, and
\* the store holds at most one Identity per login identifier.
C10_DuplicateSignupConflict ==
    /\ (last.op = "signup" /\ last.case \in {"registered", "raced"}) => last.status = 409
    /\ \A u \in users, v \in users : u.email = v.email => u = v

\* C11: every persisted Identity has role "user" or "admin" (never null), and
\* an Identity created by signup has role "user" whatever role the signup
\* payload carries.
C11_RoleDomain ==
    /\ [](\A u \in users : u.role \in {"user", "admin"})
    /\ [][\A p \in Procs, m \in MailOutcomes :
            signup_commit(p, m) => \A u \in users' \ users : u.role = "user"]_vars
    /\ [][\A p \in Procs, e \in Emails, pw \in Passwords, r \in PayloadRoles :
            (signup_precheck(p, e, pw, r) /\ inflight'[p].pc = "commit") =>
                inflight'[p].role = "user"]_vars

\* C11 witness: a signup has just persisted a new Identity, its role is
\* "user", and another Identity has been made admin by direct store access.
C11_Witness ==
    /\ last.op = "signup"
    /\ last.case = "new"
    /\ \E u \in users : u.id = nextId - 1 /\ u.role = "user"
    /\ \E u \in users : u.role = "admin"

\* C12: a resolution that misses the cache stores a snapshot of the Identity,
\* and a resolution that finds a snapshot is served from it, whatever the
\* store holds by then: two resolutions of one token return the same data
\* even if the row was changed between them.
C12_ServedFromSnapshot ==
    /\ [][\A t \in BearerTokens :
            (last'.op = "me" /\ last'.status = 200 /\ get_me(t, "up")) =>
                cache'[t.sub] # NoUser]_vars
    /\ [][\A t \in BearerTokens :
            (last'.op = "me" /\ decodes(t) /\ t.sub \in Emails
               /\ cache[t.sub] # NoUser /\ get_me(t, "up")) =>
                last'.ident = Ident(cache[t.sub])]_vars
    /\ [][(last.op = "me" /\ last'.op = "me" /\ last.redis = "up" /\ last'.redis = "up"
              /\ last.status = 200 /\ last'.status = 200
              /\ last'.ident[1] = last.ident[1]) =>
                last'.ident = last.ident]_vars

\* C13: with a valid access token, a resolution during which the Token Cache
\* fails (connecting, reading, deserializing or writing) answers exactly as
\* the direct store lookup by subject does: the Identity, or 401 if there is
\* none; the failure never surfaces.
C13_CacheFailureTransparent ==
    [][\A e \in Emails, m \in RedisFailures :
         (last'.op = "me" /\ get_me(create_access_token(e), m)) =>
             LET user == get_user_by_email(e) IN
             /\ last'.ident = Ident(user)
             /\ last'.status = IF user = NoUser THEN 401 ELSE 200
             /\ last'.detail = IF user = NoUser THEN "Could not validate credentials"
                               ELSE ""]_vars

\* C13 witness: a resolution during which the cache failed has returned the
\* stored Identity.
C13_Witness ==
    /\ last.op = "me"
    /\ last.redis \in RedisFailures
    /\ last.status = 200
    /\ \E u \in users : last.ident = Ident(u)

\* C14: a password-reset completion with a validly signed token whose type is
\* not "password_reset" is refused with 400 "Invalid or expired token" and
\* leaves every stored password hash as it was.
C14_WrongTypeResetRefused ==
    [][\A t \in LinkTokens, pw \in Passwords :
         (last'.op = "reset" /\ decodes(t) /\ t.type # "password_reset"
            /\ reset_password(t, pw)) =>
             /\ last'.status = 400
             /\ last'.detail = "Invalid or expired token"
             /\ users' = users]_vars

\* C14 witness: the access token of a registered Identity was presented as a
\* reset token and refused.
C14_Witness ==
    /\ last.op = "reset"
    /\ last.case = "wrong_type"
    /\ last.status = 400
    /\ users # {}

\* C15: after a password-reset completion with a valid "password_reset" token
\* of a registered Identity has answered success, the Identity's stored hash
\* is the hash of the new password: a login with the new password has its
\* credentials accepted and a login with another password is refused with 401.
C15_ResetReplacesHash ==
    [][\A e \in Emails, pw \in Passwords :
         (last'.op = "reset" /\ last'.status = 200
            /\ reset_password(create_password_reset_token(e), pw)) =>
             /\ \E u \in users' : u.email = e /\ u.password = get_password_hash(pw)
             /\ \A old \in Passwords \ {pw} :
                  \A u \in users' : u.email = e => ~verify_password(old, u.password)]_vars

\* C16: email verification with a valid "email_verification" token sets
\* confirmed on the first call and answers success; a later call with the
\* same token answers success and changes nothing; a validly signed token of
\* any other type is refused and changes nothing.
C16_VerifyIdempotent ==
    [][\A t \in VerifyTokens :
         (last'.op = "verify" /\ decodes(t) /\ verify_email(t)) =>
             /\ verify_case(t) = "first" =>
                   /\ last'.status = 200
                   /\ users' = {IF str(u.id) = t.sub THEN [u EXCEPT !.confirmed = TRUE]
                                 ELSE u : u \in users}
                   /\ verify_email_outcome(t)'.resp.status = 200
                   /\ verify_email_outcome(t)'.users = users'
             /\ verify_case(t) = "again" => (last'.status = 200 /\ users' = users)
             /\ verify_case(t) = "wrong_type" =>
                   (last'.status \notin 200..299 /\ users' = users)]_vars

\* C16 witness: a verification link has been used a second time, on an
\* Identity it had already confirmed, and answered success.
C16_Witness ==
    /\ last.op = "verify"
    /\ last.case = "again"
    /\ last.status = 200
    /\ \E u \in users : u.confirmed

\* C17: a signup whose identifier is new when its row is committed answers
\* 201 and the Identity is persisted, whether the verification email is
\* sent, refused or raises.
C17_SignupSurvivesEmailFailure ==
    [][\A p \in Procs, m \in MailOutcomes :
         (signup_commit(p, m) /\ get_user_by_email(inflight[p].email) = NoUser) =>
             /\ last'.status = 201
             /\ \E u \in users' : /\ u.email = inflight[p].email
                                   /\ u.password = inflight[p].password
             /\ users \subseteq users']_vars

\* C17 witness: a signup whose verification email raised has been answered
\* 201 and its Identity is in the store.
C17_Witness ==
    /\ last.op = "signup"
    /\ last.mail = "raised"
    /\ last.status = 201
    /\ \E u \in users : u.id = nextId - 1

\* Reachability facts about contacts: every repository call of the routes
\* raises, so no contact is ever stored.
ContactsStayEmpty == contacts = {}

ContactOps == {"read_contact", "update_contact", "delete_contact"}

\* C18: get, update and delete of a contact id that does not exist or belongs
\* to another user answer 404 and change no contact; after a successful
\* delete the id is no longer stored.
C18_OwnContactsOnly ==
    /\ []((last.op \in ContactOps /\ last.case \in {"absent", "foreign"}) =>
             last.status = 404)
    /\ [][(last' # last /\ last'.op \in ContactOps
              /\ last'.case \in {"absent", "foreign"}) => contacts' = contacts]_vars
    /\ [][(last' # last /\ last'.op = "delete_contact" /\ last'.status \in 200..299) =>
              \A c \in contacts' : str(c.id) # last'.arg]_vars

\* C19: a create whose email is the email of a stored contact is answered 409
\* and stores nothing, and contact emails stay unique; as the duplicate test
\* exercises it: once an authenticated user has posted a contact, posting the
\* same contact again is answered 409.
C19_DuplicateContactConflict ==
    /\ []((last.op = "create_contact" /\ last.case = "duplicate") => last.status = 409)
    /\ [](\A c \in contacts, d \in contacts : c.email = d.email => c = d)
    /\ [][\A t \in BearerTokens, e \in ContactEmails :
            (last'.op = "create_contact" /\ bearer_case(t) \in {"user", "admin"}
               /\ create_contact(t, ContactModelFields, e)) =>
                /\ create_contact_outcome(t, ContactModelFields, e)'.resp.status = 409
                /\ create_contact_outcome(t, ContactModelFields, e)'.contacts = contacts']_vars

\* C20: every refresh token issued, at login or at exchange, carries type
\* "refresh" and a jti, and its jti differs from the jti of the refresh
\* tokens issued for any other subject or at any other time.
C20_RefreshTokenHasFreshJti ==
    /\ [][\A e \in Emails, pw \in Passwords :
            (last'.op = "login" /\ login_case(e, pw) = "correct" /\ login(e, pw)) =>
                LET issued == create_refresh_token(e) IN
                /\ issued.type = "refresh"
                /\ issued.jti # NoJti
                /\ \A other \in Emails \ {e} :
                     create_refresh_token(other).jti # issued.jti]_vars
    /\ [][\A t \in Tokens :
            (last'.op = "refresh" /\ refresh_case(t) = "active" /\ refresh_token(t)) =>
                LET issued == create_refresh_token(t.sub) IN
                /\ issued.type = "refresh"
                /\ issued.jti \notin {NoJti, t.jti}]_vars

\* C21: revoke(jti) succeeds whether or not the jti is active; afterwards
\* the jti is not active, revoking it again leaves the same active set, and
\* the membership and the subject of every other jti are as before.
C21_RevokeIdempotent ==
    [][\A j \in StoreJtis :
         (last'.op = "revoke" /\ revoke(j)) =>
             /\ last'.status = 200
             /\ ~is_refresh_token_active(active', j)
             /\ revoke_refresh_token(active', j) = active'
             /\ \A e \in active : e.jti # j => e \in active'
             /\ active' \subseteq active]_vars

\* C21 witness: a jti that was not active has been revoked while other jtis
\* are active.
C21_Witness ==
    /\ last.op = "revoke"
    /\ last.case = "inactive"
    /\ last.status = 200
    /\ active # {}

C23_ConcurrentSignupConflict ==
    /\ [](\A u \in users, v \in users : u.email = v.email => u.id = v.id)
    /\ [][\A p \in Procs, m \in MailOutcomes :
            (last'.op = "signup" /\ signup_commit(p, m)) =>
                IF \E u \in users : u.email = inflight[p].email
                THEN /\ last'.status = 409
                     /\ last'.detail = "User with this email already exists."
                     /\ users' = users
                ELSE /\ last'.status = 201
                     /\ Cardinality(users') = Cardinality(users) + 1]_vars

\* C23 witness: two signups of one identifier ran concurrently; the later
\* commit has been answered 409 and exactly one Identity is in the store.
C23_Witness ==
    /\ last.op = "signup"
    /\ last.case = "raced"
    /\ last.status = 409
    /\ Cardinality(users) = 1
    /\ \A p \in Procs : inflight[p].pc = "idle"

\* C24: a resolution writes nothing to the Credential Store; it writes the
\* cache only when the lookup missed and the store held the Identity, and
\* then only that subject's snapshot; a failing resolution and a cache hit
\* leave the cache as it was.
C24_ResolutionFrame ==
    /\ [][(last' # last /\ last'.op \in {"me", "all"}) =>
              (users' = users /\ nextId' = nextId)]_vars
    /\ [][cache' # cache =>
              /\ last'.op \in {"me", "all"}
              /\ last'.status # 401
              /\ \A e \in Emails :
                   cache'[e] # cache[e] =>
                       /\ e = last'.ident[1]
                       /\ cache[e] = NoUser
                       /\ cache'[e] = get_user_by_email(e)]_vars
    /\ [][(last' # last /\ last'.op \in {"me", "all"} /\ last'.status = 401) =>
              cache' = cache]_vars

\* C24 witness: a resolution that missed the cache and found the Identity in
\* the store has completed with the cache up.
C24_Witness ==
    /\ last.op = "me"
    /\ last.status = 200
    /\ last.redis = "up"
    /\ \E u \in users : last.ident = Ident(u) /\ u.role = "admin"

\* C26: a row is created unconfirmed and by signup only; its confirmed flag
\* turns true only in a successful email verification whose token decodes,
\* has type "email_verification" and names that row; no other handler
\* changes the flag, and a confirmed row stays confirmed.
C26_ConfirmedOnlyByVerification ==
    /\ [][\A v \in users' :
              (\A u \in users : u.id # v.id) =>
                  (~v.confirmed /\ last'.op = "signup")]_vars
    /\ [][\A u \in users, v \in users' :
              (u.id = v.id /\ ~u.confirmed /\ v.confirmed) =>
                  /\ last'.op = "verify"
                  /\ last'.status = 200
                  /\ \E t \in VerifyTokens :
                       /\ verify_email(t)
                       /\ decodes(t)
                       /\ t.type = "email_verification"
                       /\ t.sub = str(u.id)]_vars
    /\ [][\A u \in users :
              u.confirmed => \E v \in users' : v.id = u.id /\ v.confirmed]_vars
    /\ [][(last' # last /\ last'.op \in {"login", "refresh", "reset", "avatar"}) =>
              \A u \in users : \E v \in users' :
                  v.id = u.id /\ v.confirmed = u.confirmed]_vars

\* C26 witness: an Identity was confirmed by a verification, later got an
\* avatar, and a password reset has just been answered with success.
C26_Witness ==
    /\ last.op = "reset"
    /\ last.status = 200
    /\ \E u \in users : u.confirmed /\ u.avatar # "none"
    /\ \E u \in users : ~u.confirmed

\* the tokens this service signs that are not access tokens
NonAccessTokens ==
    {create_refresh_token(e) : e \in Emails}
        \cup {create_password_reset_token(e) : e \in Emails}
        \cup {create_verification_token(n) : n \in UserIds}

\* C27: a request whose bearer token is a validly signed refresh,
\* password-reset or email-verification token is not resolved to an
\* Identity: it is answered 401 and the handler sees no identity.
C27_OnlyAccessTokensResolve ==
    [][\A t \in NonAccessTokens :
          (last'.op = "me" /\ get_me(t, "up")) =>
              (last'.status = 401 /\ last'.ident = Ident(NoUser))]_vars

\* C28: an exchange removes from the active set at most the presented jti
\* and adds at most the jti of the refresh token it returns; every other
\* active jti, of the same or of another subject, stays active, and the
\* users table is not written.
C28_ExchangeFrame ==
    [][\A t \in Tokens :
          (last'.op = "refresh" /\ refresh_token(t)) =>
              /\ users' = users
              /\ nextId' = nextId
              /\ \A e \in active : e.jti # t.jti => e \in active'
              /\ \A e \in active' \ active :
                   /\ last'.status = 200
                   /\ e.jti = last'.issued.refresh_token.jti]_vars

\* C28 witness: an exchange has passed the active check and removed the
\* presented jti while a registered user's other jti is still active.
C28_Witness ==
    /\ last.op = "refresh"
    /\ last.case = "active"
    /\ users # {}
    /\ \E e \in active : \E u \in users : u.email = e.email

\* C30: a password-reset completion leaves the active refresh jtis and the
\* identity snapshots as they were and writes no users column other than the
\* password, so the exchange answers every refresh token after the reset as
\* it did before it.
C30_ResetFrame ==
    [][\A t \in LinkTokens, pw \in Passwords :
          (last'.op = "reset" /\ reset_password(t, pw)) =>
              /\ active' = active
              /\ cache' = cache
              /\ \A r \in Tokens : refresh_outcome(r)' = refresh_outcome(r)
              /\ Cardinality(users') = Cardinality(users)
              /\ \A u \in users :
                   \E v \in users' : [v EXCEPT !.password = u.password] = u]_vars

\* C30 witness: a reset of the one registered Identity has been answered
\* with success while a refresh jti of that Identity is active.
C30_Witness ==
    /\ last.op = "reset"
    /\ last.status = 200
    /\ Cardinality(users) = 1
    /\ \E e \in active : \E u \in users : u.email = e.email

====
